---- MODULE Spec2Model ----
(***************************************************************************)
(* Parallel I/O of the heat-equation solver (parallel-io/heat-restart,     *)
(* io.c): write_field (gather to rank 0), read_field (parse + scatter),    *)
(* write_restart / read_restart (collective checkpoint file access).       *)
(* And the message-chain skeleton (mpi/message-chain-one-sided,            *)
(* skeleton.c): announcement, two barriers, report.                        *)
(*                                                                         *)
(* Arrays allocated by malloc_2d are contiguous, so every 2D array is a    *)
(* flat row-major sequence; C index k is sequence index k + 1.             *)
(***************************************************************************)
EXTENDS Integers, Sequences, FiniteSets, TLC

\* ------------------------------------------------------------- bounds
MaxP == 3
MaxNx == 2
MaxNy == 2
MaxSnap == 2

\* ------------------------------------------------------------- state
VARIABLES
    size,          \* parallel->size, the number of processes of the run
    pc,            \* rank -> position of the process in the function it runs
    temperature,   \* rank -> the field struct (nx, ny, nx_full, ny_full, data)
    junk,          \* the value found in memory that was allocated and never written
    tmp_data,      \* write_field: rank -> tmp_data
    full_data,     \* write_field / read_field: full_data of rank 0
    p,             \* write_field: loop variable p of rank 0
    chan,          \* rank -> messages sent to rank 0 (tag 22) and not yet received
    eager,         \* whether MPI_Send returns once the message is buffered
    png,           \* the last call of save_png: iter, height, width, data
    iter,          \* rank -> iter argument of the running call
    sync,          \* whether a collective call returns only once every process has called it
    input,         \* read_field: the initial-condition file, as its tokens
    visible,       \* read_field: rank -> whether fopen of the file succeeds there
    local,         \* read_field: rank -> the locals count, nx, ny
    temperature2,  \* read_field: rank -> the second field struct
    inner_data,    \* read_field: rank -> inner_data
    scat,          \* read_field: the send buffer of the root once it has called MPI_Scatter
    file,          \* the checkpoint file: a sequence of segments (see pwrite)
    fpos,          \* rank -> the individual file pointer of the process
    calls,         \* rank -> the collective calls the process has made, in order
    wrote,         \* rank -> offset and length passed to MPI_File_write_at_all
    rsize,         \* the number of processes of the run that restarts
    saved,         \* what the run that wrote the checkpoint held when it ended
    stdout         \* message chain: rank -> the lines the process has printed

gatherVars == <<tmp_data, p, chan, eager, png, iter>>
readVars == <<input, visible, local, temperature2, inner_data, scat>>

ckptVars == <<file, fpos, calls, wrote, rsize, saved>>

vars == <<size, pc, temperature, junk, full_data, sync, gatherVars, readVars, ckptVars,
          stdout>>

Ranks == 0 .. size - 1

\* The process makes a collective call: it is added to its record
Call(r, name) == [calls EXCEPT ![r] = Append(@, name)]

\* ------------------------------------------------------------- memory
\* memcpy(&dst[doff], &src[soff], n * sizeof(double)) on flat arrays
memcpy(dst, doff, src, soff, n) ==
    [k \in 1 .. Len(dst) |->
        IF k - 1 >= doff /\ k - 1 < doff + n THEN src[k - doff + soff] ELSE dst[k]]

\* malloc_2d(rows, cols): one contiguous block, contents unspecified
malloc_2d(rows, cols) == [k \in 1 .. rows * cols |-> junk]

\* The value of cell (i, j) of the padded tile of rank r at snapshot k: every
\* cell of every tile of every snapshot carries a value of its own.
CellVal(k, r, i, j) == ((k * 10 + r) * 10 + i) * 10 + j

\* The padded tile (nx + 2) x (ny + 2) of rank r at snapshot k
TileGen(k, r, nx, ny) ==
    [c \in 1 .. (nx + 2) * (ny + 2) |->
        CellVal(k, r, (c - 1) \div (ny + 2), (c - 1) % (ny + 2))]

\* ------------------------------------------------------------- write_field
\* rank 0, lines 26-36: allocate, copy the inner data of rank 0 row by row
RECURSIVE CopyInnerRows(_, _, _, _, _, _)
CopyInnerRows(dst, dwidth, t, i, nx, ny) ==
    IF i >= nx THEN dst
    ELSE CopyInnerRows(memcpy(dst, i * dwidth, t, (i + 1) * (ny + 2) + 1, ny),
                       dwidth, t, i + 1, nx, ny)

write_field_copy(r) ==
    /\ pc[r] = "wf_call" /\ r = 0
    /\ LET t == temperature[r]
           height == t.nx * size
           width == t.ny
       IN /\ tmp_data' = [tmp_data EXCEPT ![r] = malloc_2d(t.nx, t.ny)]
          /\ full_data' = CopyInnerRows(malloc_2d(height, width), width,
                                        t.data, 0, t.nx, t.ny)
    /\ p' = 1
    /\ pc' = [pc EXCEPT ![r] = "wf_recv"]
    /\ UNCHANGED <<stdout, size, temperature, junk, chan, eager, png, iter, sync, readVars, ckptVars>>

\* (mutation of RecvSource: the sources are named from the last rank down)
RecvSource_descending == size - p

\* The source rank the next MPI_Recv of rank 0 names
RecvSource == p

\* (mutation of Matched: the receive is given the message sent last)
Matched_latest(q) == chan[q][Len(chan[q])]

\* The message a receive from rank q with tag 22 is given: messages of one
\* sender on one communicator and tag do not overtake one another
Matched(q) == Head(chan[q])

\* (mutation of BlockRow: the rank used as a row index, the row count forgotten)
BlockRow_rank_as_row(q, nx) == q

\* The row of full_data at which the block received from rank q is placed
BlockRow(q, nx) == q * nx

\* rank 0, lines 38-44: MPI_Recv from rank p, tag 22, then copy to full_data
write_field_recv(r) ==
    /\ pc[r] = "wf_recv" /\ r = 0
    /\ p < size
    /\ chan[RecvSource] # << >>
    /\ LET t == temperature[r]
           msg == Matched(RecvSource)
       IN /\ tmp_data' = [tmp_data EXCEPT ![r] = msg]
          /\ full_data' = memcpy(full_data, BlockRow(p, t.nx) * t.ny, msg, 0,
                                 t.nx * t.ny)
    /\ chan' = [chan EXCEPT ![RecvSource] = Tail(@)]
    /\ p' = p + 1
    /\ UNCHANGED <<stdout, size, pc, temperature, junk, eager, png, iter, sync, readVars, ckptVars>>

\* rank 0, lines 45-48 and 58: save_png(full_data[0], height, width, ...), free
write_field_save(r) ==
    /\ pc[r] = "wf_recv" /\ r = 0
    /\ p >= size
    /\ png' = [iter |-> iter[r], height |-> temperature[r].nx * size,
               width |-> temperature[r].ny, data |-> full_data]
    /\ full_data' = << >>
    /\ tmp_data' = [tmp_data EXCEPT ![r] = << >>]
    /\ pc' = [pc EXCEPT ![r] = "wf_done"]
    /\ UNCHANGED <<stdout, size, temperature, junk, p, chan, eager, iter, sync, readVars, ckptVars>>

\* (mutation of write_field_pack: the inner data is packed in place, at the
\* start of the tile itself, and sent from there)
write_field_pack_in_place(r) ==
    /\ pc[r] = "wf_call" /\ r # 0
    /\ LET t == temperature[r]
           packed == CopyInnerRows(t.data, t.ny, t.data, 0, t.nx, t.ny)
       IN /\ temperature' = [temperature EXCEPT ![r].data = packed]
          /\ tmp_data' = [tmp_data EXCEPT ![r] = SubSeq(packed, 1, t.nx * t.ny)]
    /\ pc' = [pc EXCEPT ![r] = "wf_send"]
    /\ UNCHANGED <<stdout, size, junk, full_data, p, chan, eager, png, iter, sync, readVars, ckptVars>>

\* rank > 0, lines 26-29 and 50-53: copy the inner data into tmp_data
write_field_pack(r) ==
    /\ pc[r] = "wf_call" /\ r # 0
    /\ LET t == temperature[r]
       IN tmp_data' = [tmp_data EXCEPT ![r] =
              CopyInnerRows(malloc_2d(t.nx, t.ny), t.ny, t.data, 0, t.nx, t.ny)]
    /\ pc' = [pc EXCEPT ![r] = "wf_send"]
    /\ UNCHANGED <<stdout, size, temperature, junk, full_data, p, chan, eager, png, iter, sync, readVars, ckptVars>>

\* rank > 0, lines 54-55: MPI_Send to rank 0, tag 22: the message is on its way
write_field_send(r) ==
    /\ pc[r] = "wf_send"
    /\ chan' = [chan EXCEPT ![r] = Append(@, tmp_data[r])]
    /\ pc' = [pc EXCEPT ![r] = "wf_sending"]
    /\ UNCHANGED <<stdout, size, temperature, junk, tmp_data, full_data, p, eager, png, iter, sync, readVars, ckptVars>>

\* rank > 0, lines 55-58: MPI_Send returns (buffered, or matched by the
\* receive when the send is synchronous), free
write_field_sent(r) ==
    /\ pc[r] = "wf_sending"
    /\ eager \/ chan[r] = << >>
    /\ tmp_data' = [tmp_data EXCEPT ![r] = << >>]
    /\ pc' = [pc EXCEPT ![r] = "wf_done"]
    /\ UNCHANGED <<stdout, size, temperature, junk, full_data, p, chan, eager, png, iter, sync, readVars, ckptVars>>

\* The caller: the solver advances the field and calls write_field again for
\* the next snapshot.
next_snapshot(r) ==
    /\ pc[r] = "wf_done"
    /\ iter[r] < MaxSnap
    /\ iter' = [iter EXCEPT ![r] = @ + 1]
    /\ temperature' = [temperature EXCEPT ![r].data =
           TileGen(iter[r] + 1, r, temperature[r].nx, temperature[r].ny)]
    /\ pc' = [pc EXCEPT ![r] = "wf_call"]
    /\ UNCHANGED <<stdout, size, junk, tmp_data, full_data, p, chan, eager, png, sync, readVars, ckptVars>>

JunkVals == {0, 7}

\* The variables of write_restart and read_restart while another function runs
IdleCkpt ==
    /\ file = << >>
    /\ fpos = [r \in Ranks |-> 0]
    /\ calls = [r \in Ranks |-> << >>]
    /\ wrote = [r \in Ranks |-> << >>]
    /\ rsize = size
    /\ saved = [size |-> 0, temperature |-> << >>, iter |-> << >>]

\* The variables of read_field while another function runs
IdleRead ==
    /\ stdout = [r \in Ranks |-> << >>]
    /\ input = << >>
    /\ visible = [r \in Ranks |-> TRUE]
    /\ local = [r \in Ranks |-> [count |-> 0, nx |-> 0, ny |-> 0]]
    /\ temperature2 = [r \in Ranks |-> << >>]
    /\ inner_data = [r \in Ranks |-> << >>]
    /\ scat = [posted |-> FALSE, buf |-> << >>, count |-> 0]

InitGather ==
    /\ size \in 1 .. MaxP
    /\ junk \in JunkVals
    /\ eager \in BOOLEAN
    /\ \E nx \in 1 .. MaxNx, ny \in 1 .. MaxNy :
          temperature = [r \in Ranks |->
              [nx |-> nx, ny |-> ny, nx_full |-> nx * size, ny_full |-> ny,
               data |-> TileGen(1, r, nx, ny)]]
    /\ pc = [r \in Ranks |-> "wf_call"]
    /\ iter = [r \in Ranks |-> 1]
    /\ tmp_data = [r \in Ranks |-> << >>]
    /\ full_data = << >>
    /\ p = 0
    /\ chan = [r \in Ranks |-> << >>]
    /\ png = [iter |-> 0, height |-> 0, width |-> 0, data |-> << >>]
    /\ sync = FALSE
    /\ IdleRead
    /\ IdleCkpt

NextGather ==
    \/ \E r \in Ranks : write_field_copy(r)
    \/ \E r \in Ranks : write_field_recv(r)
    \/ \E r \in Ranks : write_field_save(r)
    \/ \E r \in Ranks : write_field_pack(r)
    \/ \E r \in Ranks : write_field_send(r)
    \/ \E r \in Ranks : write_field_sent(r)
    \/ \E r \in Ranks : next_snapshot(r)

SpecGather == InitGather /\ [][NextGather]_vars

\* Every process that can take a step eventually takes one. The dimensions
\* of the tiles and the contents of fresh memory have no part in which steps
\* can be taken: tiles of one cell are taken.
InitGatherFair ==
    /\ InitGather
    /\ temperature[0].nx = 1 /\ temperature[0].ny = 1
    /\ \A v \in JunkVals : junk <= v

FairGather == InitGatherFair /\ [][NextGather]_vars /\ WF_vars(NextGather)

\* ------------------------------------------------------------- read_field
\* The initial-condition file is a sequence of whitespace-separated tokens:
\* the character #, a number, or text that is no number.
Hash == [kind |-> "hash", val |-> 0]
Num(n) == [kind |-> "num", val |-> n]
Text == [kind |-> "text", val |-> 0]

IsNum(tokens, k) == k <= Len(tokens) /\ tokens[k].kind = "num"

\* line 77: count = fscanf(fp, "# %d %d \n", &nx, &ny). The result is the
\* number of integers assigned, or EOF (-1) when the input ends before the
\* first conversion; a variable not assigned keeps its uninitialised value;
\* rest is what is left to read.
fscanf_header(tokens) ==
    IF tokens = << >> THEN [count |-> -1, nx |-> junk, ny |-> junk, rest |-> << >>]
    ELSE IF tokens[1].kind # "hash"
        THEN [count |-> 0, nx |-> junk, ny |-> junk, rest |-> tokens]
    ELSE IF Len(tokens) = 1
        THEN [count |-> -1, nx |-> junk, ny |-> junk, rest |-> << >>]
    ELSE IF ~IsNum(tokens, 2)
        THEN [count |-> 0, nx |-> junk, ny |-> junk, rest |-> Tail(tokens)]
    ELSE IF ~IsNum(tokens, 3)
        THEN [count |-> 1, nx |-> tokens[2].val, ny |-> junk,
              rest |-> SubSeq(tokens, 3, Len(tokens))]
    ELSE [count |-> 2, nx |-> tokens[2].val, ny |-> tokens[3].val,
          rest |-> SubSeq(tokens, 4, Len(tokens))]

\* (mutation of HeaderBad: one integer is taken for a header)
HeaderBad_one_is_enough(count) == count < 1

\* line 78: the header check
HeaderBad(count) == count < 2

\* MPI_Abort(MPI_COMM_WORLD, -1): every process of the group is terminated
MPI_Abort == [q \in Ranks |-> IF pc[q] = "crashed" THEN "crashed" ELSE "aborted"]

\* lines 75-81, every rank: fopen, fscanf of the header, the check. fopen is
\* not checked: where it fails fp is NULL and fscanf(NULL, ...) is undefined:
\* the process dies, or the call fails with EOF.
read_field_header(r) ==
    /\ pc[r] = "rf_call"
    /\ \/ /\ visible[r]
          /\ LET h == fscanf_header(input)
             IN /\ local' = [local EXCEPT ![r] =
                       [count |-> h.count, nx |-> h.nx, ny |-> h.ny]]
                /\ pc' = IF HeaderBad(h.count) THEN MPI_Abort
                         ELSE [pc EXCEPT ![r] = "rf_setup"]
       \/ /\ ~visible[r]
          /\ pc' = [pc EXCEPT ![r] = "crashed"]
          /\ UNCHANGED local
       \/ /\ ~visible[r]
          /\ local' = [local EXCEPT ![r] = [count |-> -1, nx |-> junk, ny |-> junk]]
          /\ pc' = IF HeaderBad(-1) THEN MPI_Abort ELSE [pc EXCEPT ![r] = "rf_setup"]
    /\ UNCHANGED <<stdout, size, temperature, junk, full_data, sync, gatherVars,
                   input, visible, temperature2, inner_data, scat, ckptVars>>

\* set_field_dimensions(temperature, nx, ny, parallel): the rows are divided
\* evenly among the processes, the columns are not divided
set_field_dimensions(nx, ny, nprocs) ==
    [nx |-> nx \div nprocs, ny |-> ny, nx_full |-> nx, ny_full |-> ny, data |-> << >>]

\* lines 83-93: decomposition, dimensions, allocation of the two tiles
\* (ghost layers included) and of inner_data
read_field_setup(r) ==
    /\ pc[r] = "rf_setup"
    /\ LET t == set_field_dimensions(local[r].nx, local[r].ny, size)
       IN /\ temperature' = [temperature EXCEPT ![r] =
                 [t EXCEPT !.data = malloc_2d(t.nx + 2, t.ny + 2)]]
          /\ temperature2' = [temperature2 EXCEPT ![r] =
                 [t EXCEPT !.data = malloc_2d(t.nx + 2, t.ny + 2)]]
          /\ inner_data' = [inner_data EXCEPT ![r] = malloc_2d(t.nx, t.ny)]
    /\ pc' = [pc EXCEPT ![r] = IF r = 0 THEN "rf_read" ELSE "rf_scatter"]
    /\ UNCHANGED <<stdout, size, junk, full_data, sync, gatherVars,
                   input, visible, local, scat, ckptVars>>

\* The number of leading tokens that "%lf" converts: the first token that is
\* no number stays in the stream and fails every later fscanf too.
RECURSIVE NumPrefix(_, _)
NumPrefix(tokens, k) ==
    IF IsNum(tokens, k + 1) THEN NumPrefix(tokens, k + 1) ELSE k

\* lines 100-104: fscanf(fp, "%lf", &full_data[i][j]) for every cell in
\* row-major order; count is not looked at, a cell whose fscanf fails keeps
\* what malloc left there
fscanf_values(buf, tokens) ==
    LET good == NumPrefix(tokens, 0)
    IN [k \in 1 .. Len(buf) |-> IF k <= good THEN tokens[k].val ELSE buf[k]]

\* lines 95-104, rank 0: allocate full_data and read the values
read_field_data(r) ==
    /\ pc[r] = "rf_read" /\ r = 0
    /\ full_data' = fscanf_values(malloc_2d(local[r].nx, local[r].ny),
                                  fscanf_header(input).rest)
    /\ pc' = [pc EXCEPT ![r] = "rf_scatter"]
    /\ UNCHANGED <<stdout, size, temperature, junk, sync, gatherVars, readVars, ckptVars>>

\* The position of a process in read_field
RfPos(l) ==
    CASE l = "rf_call" -> 0 [] l = "rf_setup" -> 1 [] l = "rf_read" -> 2
      [] l = "rf_scatter" -> 3 [] l = "rf_in_scatter" -> 4 [] l = "rf_fill" -> 5
      [] l = "rf_done" -> 6 [] OTHER -> -1

\* lines 111-114: the process calls MPI_Scatter; the root (rank 0) makes its
\* send buffer and send count available
read_field_scatter(r) ==
    /\ pc[r] = "rf_scatter"
    /\ scat' = IF r = 0
               THEN [posted |-> TRUE, buf |-> full_data,
                     count |-> temperature[r].nx * local[r].ny]
               ELSE scat
    /\ calls' = Call(r, "scatter")
    /\ pc' = [pc EXCEPT ![r] = "rf_in_scatter"]
    /\ UNCHANGED <<stdout, size, temperature, junk, full_data, sync, gatherVars,
                   input, visible, local, temperature2, inner_data,
                   file, fpos, wrote, rsize, saved>>

\* (mutation of ScatterBlock: every process is given the first block)
ScatterBlock_first_block(buf, r, sendcount, recvcount) ==
    [k \in 1 .. recvcount |-> buf[k]]

\* MPI_Scatter: the block of the root's buffer that rank r receives
ScatterBlock(buf, r, sendcount, recvcount) ==
    [k \in 1 .. recvcount |-> buf[r * sendcount + k]]

\* lines 113-114: MPI_Scatter returns with the block of the process in
\* inner_data
read_field_scattered(r) ==
    /\ pc[r] = "rf_in_scatter"
    /\ scat.posted
    /\ sync => \A q \in Ranks : RfPos(pc[q]) >= 4
    /\ inner_data' = [inner_data EXCEPT ![r] =
           ScatterBlock(scat.buf, r, scat.count, temperature[r].nx * local[r].ny)]
    /\ pc' = [pc EXCEPT ![r] = "rf_fill"]
    /\ UNCHANGED <<stdout, size, temperature, junk, full_data, sync, gatherVars,
                   input, visible, local, temperature2, scat, ckptVars>>

\* (mutation of CopyToInterior: the rows are copied to the first column, the
\* ghost column not skipped)
RECURSIVE CopyToInterior_no_column_offset(_, _, _, _, _)
CopyToInterior_no_column_offset(data, inner, i, nx_local, ny) ==
    IF i >= nx_local THEN data
    ELSE CopyToInterior_no_column_offset(
             memcpy(data, (i + 1) * (ny + 2), inner, i * ny, ny),
             inner, i + 1, nx_local, ny)

\* lines 116-119: copy inner_data into the interior of the padded tile
RECURSIVE CopyToInterior(_, _, _, _, _)
CopyToInterior(data, inner, i, nx_local, ny) ==
    IF i >= nx_local THEN data
    ELSE CopyToInterior(memcpy(data, (i + 1) * (ny + 2) + 1, inner, i * ny, ny),
                        inner, i + 1, nx_local, ny)

\* data[i][j] of a padded tile with ny interior columns
Cell(data, ny, i, j) == data[i * (ny + 2) + j + 1]

\* lines 122-125: the ghost columns of the interior rows
SetColumnBoundary(data, nx_local, ny) ==
    [c \in 1 .. Len(data) |->
        LET i == (c - 1) \div (ny + 2)
            j == (c - 1) % (ny + 2)
        IN IF i >= 1 /\ i < nx_local + 1 /\ j = 0 THEN Cell(data, ny, i, 1)
           ELSE IF i >= 1 /\ i < nx_local + 1 /\ j = ny + 1 THEN Cell(data, ny, i, ny)
           ELSE data[c]]

\* (mutation of RowBoundaryColumns: the loop runs over the interior columns only)
RowBoundaryColumns_interior_only(ny) == 1 .. ny

\* line 126: the columns j over which the ghost rows are set
RowBoundaryColumns(ny) == 0 .. ny + 1

\* lines 126-130: the ghost rows, corners included
SetRowBoundary(data, nx_local, ny) ==
    [c \in 1 .. Len(data) |->
        LET i == (c - 1) \div (ny + 2)
            j == (c - 1) % (ny + 2)
        IN IF j \in RowBoundaryColumns(ny) /\ i = 0 THEN Cell(data, ny, 1, j)
           ELSE IF j \in RowBoundaryColumns(ny) /\ i = nx_local + 1
               THEN Cell(data, ny, nx_local, j)
           ELSE data[c]]

\* copy_field(temperature1, temperature2): the data of the first tile is
\* copied into the second
copy_field(t1, t2) == [t2 EXCEPT !.data = t1.data]

\* lines 116-136: interior, boundary values, the copy, free, fclose
read_field_fill(r) ==
    /\ pc[r] = "rf_fill"
    /\ LET nx_local == temperature[r].nx
           ny == local[r].ny
           t1 == [temperature[r] EXCEPT !.data =
                     SetRowBoundary(
                         SetColumnBoundary(
                             CopyToInterior(@, inner_data[r], 0, nx_local, ny),
                             nx_local, ny),
                         nx_local, ny)]
       IN /\ temperature' = [temperature EXCEPT ![r] = t1]
          /\ temperature2' = [temperature2 EXCEPT ![r] = copy_field(t1, @)]
    /\ inner_data' = [inner_data EXCEPT ![r] = << >>]
    /\ full_data' = IF r = 0 THEN << >> ELSE full_data
    /\ pc' = [pc EXCEPT ![r] = "rf_done"]
    /\ UNCHANGED <<stdout, size, junk, sync, gatherVars, input, visible, local, scat, ckptVars>>

\* The value at row gi, column j of the global field in a well-formed file
FieldVal(gi, j) == 100 + gi * 10 + j

\* A well-formed file: "# rows cols" and rows x cols values in row-major order
GoodFile(rows, cols) ==
    <<Hash, Num(rows), Num(cols)>>
        \o [k \in 1 .. rows * cols |-> Num(FieldVal((k - 1) \div cols, (k - 1) % cols))]

\* Files with a malformed header
BadHeaders ==
    { << >>, <<Hash>>, <<Hash, Num(3)>>, <<Hash, Text>>, <<Hash, Num(3), Text>>,
      <<Num(3), Num(3)>> }

\* The files read_field is run on: well-formed, with the last value missing,
\* and with a malformed header
InputFiles(rows, cols) ==
    { GoodFile(rows, cols),
      SubSeq(GoodFile(rows, cols), 1, 3 + rows * cols - 1) } \cup BadHeaders

UnallocatedField == [nx |-> 0, ny |-> 0, nx_full |-> 0, ny_full |-> 0, data |-> << >>]

\* The variables of write_field while another function runs
IdleGather ==
    /\ tmp_data = [r \in Ranks |-> << >>]
    /\ p = 0
    /\ chan = [r \in Ranks |-> << >>]
    /\ eager = FALSE
    /\ png = [iter |-> 0, height |-> 0, width |-> 0, data |-> << >>]
    /\ iter = [r \in Ranks |-> 0]

InitRead ==
    /\ size \in 1 .. MaxP
    /\ junk \in JunkVals
    /\ sync \in BOOLEAN
    /\ \E nx_local \in 1 .. MaxNx, ny \in 1 .. MaxNy :
          input \in InputFiles(nx_local * size, ny)
    /\ visible \in [Ranks -> BOOLEAN]
    /\ pc = [r \in Ranks |-> "rf_call"]
    /\ temperature = [r \in Ranks |-> UnallocatedField]
    /\ temperature2 = [r \in Ranks |-> UnallocatedField]
    /\ local = [r \in Ranks |-> [count |-> 0, nx |-> junk, ny |-> junk]]
    /\ inner_data = [r \in Ranks |-> << >>]
    /\ full_data = << >>
    /\ scat = [posted |-> FALSE, buf |-> << >>, count |-> 0]
    /\ stdout = [r \in Ranks |-> << >>]
    /\ IdleGather
    /\ IdleCkpt

NextRead ==
    \/ \E r \in Ranks : read_field_header(r)
    \/ \E r \in Ranks : read_field_setup(r)
    \/ \E r \in Ranks : read_field_data(r)
    \/ \E r \in Ranks : read_field_scatter(r)
    \/ \E r \in Ranks : read_field_scattered(r)
    \/ \E r \in Ranks : read_field_fill(r)

SpecRead == InitRead /\ [][NextRead]_vars

\* ------------------------------------------------------------- checkpoint file
\* Offsets and lengths in the checkpoint file are counted in words of 4
\* bytes: every offset the program uses is a multiple of 4.
sizeof_int == 4
sizeof_double == 8
Word == sizeof_int
IntWords == sizeof_int \div Word
DoubleWords == sizeof_double \div Word

\* The file, and every buffer that is written to it or read from it, is a
\* sequence of segments [len, kind, id, off]: len words that are the words
\* off .. off + len - 1 of
\*   kind "int":   the integer id                  (len 1)
\*   kind "tile":  the padded tile rank id held when the checkpoint was written
\*   kind "old":   what the file held before the checkpoint was written
\*   kind "hole":  the zeros of a region past the end that was never written
\*   kind "fresh": the memory allocate_field returned to rank id
Seg(len, kind, id) == [len |-> len, kind |-> kind, id |-> id, off |-> 0]

RECURSIVE FileLen(_)
FileLen(f) == IF f = << >> THEN 0 ELSE Head(f).len + FileLen(Tail(f))

Max(a, b) == IF a >= b THEN a ELSE b
Min(a, b) == IF a <= b THEN a ELSE b

\* The words a .. b - 1 of f, the first segment of f starting at word pos
RECURSIVE SliceFrom(_, _, _, _)
SliceFrom(f, pos, a, b) ==
    IF f = << >> THEN << >>
    ELSE LET s == Head(f)
             lo == Max(pos, a)
             hi == Min(pos + s.len, b)
             piece == IF lo < hi
                      THEN <<[s EXCEPT !.len = hi - lo,
                                       !.off = IF s.kind = "hole" THEN 0
                                               ELSE s.off + (lo - pos)]>>
                      ELSE << >>
         IN piece \o SliceFrom(Tail(f), pos + s.len, a, b)

Slice(f, a, b) == SliceFrom(f, 0, a, b)

\* Writing data at word offset off: the words before and after it stay, a
\* gap between the end of the file and off reads as zeros
pwrite(f, off, data) ==
    LET cur == FileLen(f)
        n == FileLen(data)
    IN Slice(f, 0, off)
           \o (IF off > cur THEN <<Seg(off - cur, "hole", 0)>> ELSE << >>)
           \o data
           \o Slice(f, off + n, cur)

\* Reading n words at word offset off into buf: what the file holds there;
\* words past the end of the file are not read and buf keeps its contents
pread(f, off, n, buf) ==
    LET got == Slice(f, off, off + n)
    IN got \o Slice(buf, FileLen(got), n)

\* The int a process obtains by reading one word into a variable holding old
ReadInt(f, pos, old) ==
    LET got == Slice(f, pos, pos + IntWords)
    IN IF got = << >> THEN old
       ELSE IF got[1].kind = "int" THEN got[1].id
       ELSE IF got[1].kind = "hole" THEN 0
       ELSE junk

\* A collective call returns: at once where the library does not
\* synchronise (MPI lets a collective return as soon as the caller's part is
\* done), and otherwise once every process has made the matching call
Returns(r) ==
    LET k == Len(calls[r])
    IN sync => \A q \in Ranks : Len(calls[q]) >= k /\ calls[q][k] = calls[r][k]

\* An int holding the byte count 4 * w: conversion to a 32-bit int wraps
IntRangeWords == 2 ^ 30
ToInt(w) ==
    LET m == w % IntRangeWords
    IN IF m >= IntRangeWords \div 2 THEN m - IntRangeWords ELSE m

\* lines 157 / 195: size = (nx + 2) * (ny + 2)
LocalSize(t) == (t.nx + 2) * (t.ny + 2)

\* lines 160-162 / 198-200: disp = 3 * sizeof(int);
\* disp += rank * (ny + 2) * (nx + 2) * sizeof(double);  disp is an int
\* (the byte count of one tile is reduced to the range of an int before it is
\* multiplied, which gives the same result modulo 2^32 and keeps the
\* intermediate values small)
Disp(rank, t) ==
    ToInt(3 * IntWords + rank * ToInt((t.ny + 2) * (t.nx + 2) * DoubleWords))

\* ------------------------------------------------------------- write_restart
\* lines 147-148: MPI_File_open(CHECKPOINT, MPI_MODE_CREATE | MPI_MODE_WRONLY):
\* the file is created if it does not exist; an existing file is opened as it is
write_restart_open(r) ==
    /\ pc[r] = "wr_call"
    /\ calls' = Call(r, "open")
    /\ fpos' = [fpos EXCEPT ![r] = 0]
    /\ pc' = [pc EXCEPT ![r] = "wr_in_open"]
    /\ UNCHANGED <<stdout, size, temperature, junk, full_data, sync, gatherVars, readVars,
                   file, wrote, rsize, saved>>

\* (mutation of AfterOpen: the header is not written)
AfterOpen_no_header(r) == "wr_tile"

\* (mutation of AfterOpen: only rank 0 goes on to the collective write)
AfterOpen_write_in_branch(r) == IF r = 0 THEN "wr_hdr0" ELSE "wr_in_tile"

\* line 149: if (parallel->rank == 0) the header is written first
AfterOpen(r) == IF r = 0 THEN "wr_hdr0" ELSE "wr_tile"

\* line 149: MPI_File_open has returned
write_restart_opened(r) ==
    /\ pc[r] = "wr_in_open"
    /\ Returns(r)
    /\ pc' = [pc EXCEPT ![r] = AfterOpen(r)]
    /\ UNCHANGED <<stdout, size, temperature, junk, full_data, sync, gatherVars, readVars,
                   ckptVars>>

\* The three header values in the order written
HeaderValue(k, t, it) ==
    CASE k = 0 -> t.nx_full [] k = 1 -> t.ny_full [] OTHER -> it

\* lines 150-154, rank 0: one MPI_File_write of one MPI_INT at the individual
\* file pointer, which advances
write_restart_header(r, k) ==
    /\ r = 0
    /\ pc[r] = (CASE k = 0 -> "wr_hdr0" [] k = 1 -> "wr_hdr1" [] OTHER -> "wr_hdr2")
    /\ file' = pwrite(file, fpos[r],
                      <<Seg(IntWords, "int", HeaderValue(k, temperature[r], iter[r]))>>)
    /\ fpos' = [fpos EXCEPT ![r] = @ + IntWords]
    /\ pc' = [pc EXCEPT ![r] =
                 CASE k = 0 -> "wr_hdr1" [] k = 1 -> "wr_hdr2" [] OTHER -> "wr_tile"]
    /\ UNCHANGED <<stdout, size, temperature, junk, full_data, sync, gatherVars, readVars,
                   calls, wrote, rsize, saved>>

\* lines 156-166, every rank: MPI_File_write_at_all(fp, disp, data, size,
\* MPI_DOUBLE). A negative offset is an error: the call returns it (the
\* result is not looked at) and nothing is written.
write_restart_tile(r) ==
    /\ pc[r] = "wr_tile"
    /\ LET t == temperature[r]
           disp == Disp(r, t)
           n == LocalSize(t) * DoubleWords
       IN /\ file' = IF disp >= 0 THEN pwrite(file, disp, Slice(t.data, 0, n))
                     ELSE file
          /\ wrote' = [wrote EXCEPT ![r] = <<disp, n>>]
    /\ calls' = Call(r, "write_at_all")
    /\ pc' = [pc EXCEPT ![r] = "wr_in_tile"]
    /\ UNCHANGED <<stdout, size, temperature, junk, full_data, sync, gatherVars, readVars,
                   fpos, rsize, saved>>

\* lines 166-169: MPI_File_write_at_all has returned, MPI_File_close is called
write_restart_close(r) ==
    /\ pc[r] = "wr_in_tile"
    /\ Returns(r)
    /\ calls' = Call(r, "close")
    /\ pc' = [pc EXCEPT ![r] = "wr_in_close"]
    /\ UNCHANGED <<stdout, size, temperature, junk, full_data, sync, gatherVars, readVars,
                   file, fpos, wrote, rsize, saved>>

\* lines 169-170: MPI_File_close has returned, write_restart returns
write_restart_return(r) ==
    /\ pc[r] = "wr_in_close"
    /\ Returns(r)
    /\ pc' = [pc EXCEPT ![r] = "wr_done"]
    /\ UNCHANGED <<stdout, size, temperature, junk, full_data, sync, gatherVars, readVars,
                   ckptVars>>

\* The program ends after the checkpoint and is started again on rsize
\* processes, which call read_restart
restart ==
    /\ \A r \in Ranks : pc[r] = "wr_done"
    /\ saved' = [size |-> size, temperature |-> temperature, iter |-> iter]
    /\ size' = rsize
    /\ pc' = [r \in 0 .. rsize - 1 |-> "rr_call"]
    /\ temperature' = [r \in 0 .. rsize - 1 |-> UnallocatedField]
    /\ iter' = [r \in 0 .. rsize - 1 |-> junk]
    /\ local' = [r \in 0 .. rsize - 1 |-> [rows |-> junk, cols |-> junk]]
    /\ fpos' = [r \in 0 .. rsize - 1 |-> 0]
    /\ calls' = [r \in 0 .. rsize - 1 |-> << >>]
    /\ UNCHANGED <<stdout, junk, full_data, sync, tmp_data, p, chan, eager, png,
                   input, visible, temperature2, inner_data, scat,
                   file, wrote, rsize>>

\* ------------------------------------------------------------- read_restart
\* lines 181-182: MPI_File_open(CHECKPOINT, MPI_MODE_RDONLY)
read_restart_open(r) ==
    /\ pc[r] = "rr_call"
    /\ calls' = Call(r, "open")
    /\ fpos' = [fpos EXCEPT ![r] = 0]
    /\ pc' = [pc EXCEPT ![r] = "rr_in_open"]
    /\ UNCHANGED <<stdout, size, temperature, junk, full_data, sync, gatherVars, readVars,
                   file, wrote, rsize, saved>>

\* line 185: the open has returned; MPI_File_read_all(fp, &rows, 1, MPI_INT)
read_restart_rows(r) ==
    /\ pc[r] = "rr_in_open"
    /\ Returns(r)
    /\ local' = [local EXCEPT ![r].rows = ReadInt(file, fpos[r], @)]
    /\ fpos' = [fpos EXCEPT ![r] = @ + FileLen(Slice(file, @, @ + IntWords))]
    /\ calls' = Call(r, "read_all")
    /\ pc' = [pc EXCEPT ![r] = "rr_in_rows"]
    /\ UNCHANGED <<stdout, size, temperature, junk, full_data, sync, gatherVars,
                   input, visible, temperature2, inner_data, scat,
                   file, wrote, rsize, saved>>

\* line 186: MPI_File_read_all(fp, &cols, 1, MPI_INT)
read_restart_cols(r) ==
    /\ pc[r] = "rr_in_rows"
    /\ Returns(r)
    /\ local' = [local EXCEPT ![r].cols = ReadInt(file, fpos[r], @)]
    /\ fpos' = [fpos EXCEPT ![r] = @ + FileLen(Slice(file, @, @ + IntWords))]
    /\ calls' = Call(r, "read_all")
    /\ pc' = [pc EXCEPT ![r] = "rr_in_cols"]
    /\ UNCHANGED <<stdout, size, temperature, junk, full_data, sync, gatherVars,
                   input, visible, temperature2, inner_data, scat,
                   file, wrote, rsize, saved>>

\* line 187: MPI_File_read_all(fp, iter, 1, MPI_INT)
read_restart_iter(r) ==
    /\ pc[r] = "rr_in_cols"
    /\ Returns(r)
    /\ iter' = [iter EXCEPT ![r] = ReadInt(file, fpos[r], @)]
    /\ fpos' = [fpos EXCEPT ![r] = @ + FileLen(Slice(file, @, @ + IntWords))]
    /\ calls' = Call(r, "read_all")
    /\ pc' = [pc EXCEPT ![r] = "rr_in_iter"]
    /\ UNCHANGED <<stdout, size, temperature, junk, full_data, sync, tmp_data, p, chan,
                   eager, png, readVars, file, wrote, rsize, saved>>

\* allocate_field(temperature): memory for the padded tile
allocate_field(t, r) ==
    [t EXCEPT !.data = <<Seg(LocalSize(t) * DoubleWords, "fresh", r)>>]

\* lines 188-204: the header reads have returned; decomposition, dimensions,
\* allocation, offset, MPI_File_read_at_all(fp, disp, data, size, MPI_DOUBLE).
\* A negative offset is an error and nothing is read.
read_restart_tile(r) ==
    /\ pc[r] = "rr_in_iter"
    /\ Returns(r)
    /\ LET t == allocate_field(
                    set_field_dimensions(local[r].rows, local[r].cols, size), r)
           disp == Disp(r, t)
           n == LocalSize(t) * DoubleWords
       IN temperature' = [temperature EXCEPT ![r] =
              IF disp >= 0 THEN [t EXCEPT !.data = pread(file, disp, n, @)] ELSE t]
    /\ calls' = Call(r, "read_at_all")
    /\ pc' = [pc EXCEPT ![r] = "rr_in_tile"]
    /\ UNCHANGED <<stdout, size, junk, full_data, sync, gatherVars, readVars,
                   file, fpos, wrote, rsize, saved>>

\* lines 204-207: MPI_File_read_at_all has returned, MPI_File_close is called
read_restart_close(r) ==
    /\ pc[r] = "rr_in_tile"
    /\ Returns(r)
    /\ calls' = Call(r, "close")
    /\ pc' = [pc EXCEPT ![r] = "rr_in_close"]
    /\ UNCHANGED <<stdout, size, temperature, junk, full_data, sync, gatherVars, readVars,
                   file, fpos, wrote, rsize, saved>>

\* lines 207-208: MPI_File_close has returned, read_restart returns
read_restart_return(r) ==
    /\ pc[r] = "rr_in_close"
    /\ Returns(r)
    /\ pc' = [pc EXCEPT ![r] = "rr_done"]
    /\ UNCHANGED <<stdout, size, temperature, junk, full_data, sync, gatherVars, readVars,
                   ckptVars>>

\* A grid whose padded tile is 2^28 doubles (2 GiB)
BigTile == 16384 - 2

\* A grid whose padded tile is 256999 x 2089 = 2^29 - 1 doubles (2^32 - 8
\* bytes)
WrapRows == 256999 - 2
WrapCols == 2089 - 2

\* The local dimensions nx, ny of the runs that write a checkpoint
CkptDims == {<<MaxNx, MaxNy>>, <<BigTile, BigTile>>, <<WrapRows, WrapCols>>}

\* The iteration at which the checkpoint is written
CkptIters == {500}

\* What the file CHECKPOINT may hold before write_restart: nothing, or an
\* earlier checkpoint of a larger grid on more processes
OldFiles ==
    { << >>,
      <<Seg(3 * IntWords + (MaxP + 1) * (MaxNx + 3) * (MaxNy + 3) * DoubleWords,
            "old", 0)>> }

InitCkpt ==
    /\ size \in 1 .. MaxP
    /\ junk \in JunkVals
    /\ sync \in BOOLEAN
    /\ \E d \in CkptDims :
          /\ temperature = [r \in Ranks |->
                [nx |-> d[1], ny |-> d[2], nx_full |-> d[1] * size, ny_full |-> d[2],
                 data |-> <<Seg((d[1] + 2) * (d[2] + 2) * DoubleWords, "tile", r)>>]]
          /\ rsize \in {q \in 1 .. MaxP : (d[1] * size) % q = 0}
          \* the checkpoint is smaller than 2^31 words (8 GiB)
          /\ (d[1] + 2) * (d[2] + 2) * DoubleWords <= (2147483647 - 3) \div size
    /\ file \in OldFiles
    /\ pc = [r \in Ranks |-> "wr_call"]
    /\ \E it \in CkptIters : iter = [r \in Ranks |-> it]
    /\ fpos = [r \in Ranks |-> 0]
    /\ calls = [r \in Ranks |-> << >>]
    /\ wrote = [r \in Ranks |-> << >>]
    /\ saved = [size |-> 0, temperature |-> << >>, iter |-> << >>]
    /\ full_data = << >>
    /\ tmp_data = [r \in Ranks |-> << >>]
    /\ p = 0
    /\ chan = [r \in Ranks |-> << >>]
    /\ eager = FALSE
    /\ png = [iter |-> 0, height |-> 0, width |-> 0, data |-> << >>]
    /\ IdleRead

NextCkpt ==
    \/ \E r \in Ranks : write_restart_open(r)
    \/ \E r \in Ranks : write_restart_opened(r)
    \/ \E r \in Ranks, k \in 0 .. 2 : write_restart_header(r, k)
    \/ \E r \in Ranks : write_restart_tile(r)
    \/ \E r \in Ranks : write_restart_close(r)
    \/ \E r \in Ranks : write_restart_return(r)
    \/ restart
    \/ \E r \in Ranks : read_restart_open(r)
    \/ \E r \in Ranks : read_restart_rows(r)
    \/ \E r \in Ranks : read_restart_cols(r)
    \/ \E r \in Ranks : read_restart_iter(r)
    \/ \E r \in Ranks : read_restart_tile(r)
    \/ \E r \in Ranks : read_restart_close(r)
    \/ \E r \in Ranks : read_restart_return(r)

SpecCkpt == InitCkpt /\ [][NextCkpt]_vars

\* Every process that can take a step eventually takes one. What the file
\* held before has no part in which steps can be taken: it is left out.
InitCkptFair == InitCkpt /\ file = << >>

FairCkpt == InitCkptFair /\ [][NextCkpt]_vars /\ WF_vars(NextCkpt)

\* The two functions that write the field out: the run calls write_field for
\* its snapshots, or write_restart (and is restarted from the checkpoint)
SpecWriters == (InitGather \/ InitCkpt) /\ [][NextGather \/ NextCkpt]_vars

\* ------------------------------------------------------------- message chain
\* (mpi/message-chain-one-sided, skeleton.c: the communication itself is
\* left to be written; the program announces, synchronises, reports)
\* line 9: int size = 10000000, the number of elements of a message
MessageSize == 10000000

\* line 28: the ranks that announce a message to send
IsSender(myid) == myid < size - 1

\* line 42: the ranks that report a message received
IsReceiver(myid) == myid > 0

\* MPI_Barrier returns once every process of the group has entered it
BarrierReturns(r) ==
    LET k == Len(calls[r])
    IN \A q \in Ranks : Len(calls[q]) >= k /\ calls[q][k] = calls[r][k]

\* lines 16-30: MPI_Init, the buffers, the announcement of the senders
chain_announce(r) ==
    /\ pc[r] = "ch_start"
    /\ stdout' = [stdout EXCEPT ![r] =
           IF IsSender(r)
           THEN Append(@, [kind |-> "Sender", id |-> r, val |-> MessageSize])
           ELSE @]
    /\ pc' = [pc EXCEPT ![r] = "ch_bar1"]
    /\ UNCHANGED <<size, temperature, junk, full_data, sync, gatherVars, readVars,
                   ckptVars>>

\* line 33: MPI_Barrier is called
chain_barrier1(r) ==
    /\ pc[r] = "ch_bar1"
    /\ calls' = Call(r, "barrier")
    /\ pc' = [pc EXCEPT ![r] = "ch_in_bar1"]
    /\ UNCHANGED <<stdout, size, temperature, junk, full_data, sync, gatherVars,
                   readVars, file, fpos, wrote, rsize, saved>>

\* lines 33-39: the barrier returns; t0; nothing is sent or received; t1
chain_timed(r) ==
    /\ pc[r] = "ch_in_bar1"
    /\ BarrierReturns(r)
    /\ pc' = [pc EXCEPT ![r] = "ch_report"]
    /\ UNCHANGED <<stdout, size, temperature, junk, full_data, sync, gatherVars,
                   readVars, ckptVars>>

\* (mutation of AfterReport: the second barrier is inside the branch of the
\* receivers)
AfterReport_barrier_in_branch(myid) ==
    IF IsReceiver(myid) THEN "ch_bar2" ELSE "ch_in_bar2"

\* lines 44-47: after the report every rank goes on to the second barrier
AfterReport(myid) == "ch_bar2"

\* lines 41-44: the report of the receivers; receiveBuffer was allocated and
\* never written, its first element is whatever malloc left there
chain_report(r) ==
    /\ pc[r] = "ch_report"
    /\ stdout' = [stdout EXCEPT ![r] =
           IF IsReceiver(r)
           THEN Append(@, [kind |-> "Receiver", id |-> r, val |-> junk])
           ELSE @]
    /\ pc' = [pc EXCEPT ![r] = AfterReport(r)]
    /\ UNCHANGED <<size, temperature, junk, full_data, sync, gatherVars, readVars,
                   ckptVars>>

\* line 47: MPI_Barrier is called
chain_barrier2(r) ==
    /\ pc[r] = "ch_bar2"
    /\ calls' = Call(r, "barrier")
    /\ pc' = [pc EXCEPT ![r] = "ch_in_bar2"]
    /\ UNCHANGED <<stdout, size, temperature, junk, full_data, sync, gatherVars,
                   readVars, file, fpos, wrote, rsize, saved>>

\* lines 47-52: the barrier returns; the time is printed (its value is of no
\* account here), the buffers are freed
chain_elapsed(r) ==
    /\ pc[r] = "ch_in_bar2"
    /\ Len(calls[r]) = 2 /\ BarrierReturns(r)
    /\ stdout' = [stdout EXCEPT ![r] =
           Append(@, [kind |-> "Time", id |-> r, val |-> 0])]
    /\ pc' = [pc EXCEPT ![r] = "ch_finalize"]
    /\ UNCHANGED <<size, temperature, junk, full_data, sync, gatherVars, readVars,
                   ckptVars>>

\* lines 53-54: MPI_Finalize, return
chain_finalize(r) ==
    /\ pc[r] = "ch_finalize"
    /\ pc' = [pc EXCEPT ![r] = "ch_done"]
    /\ UNCHANGED <<stdout, size, temperature, junk, full_data, sync, gatherVars,
                   readVars, ckptVars>>

InitChain ==
    /\ size \in 1 .. MaxP
    /\ junk \in JunkVals
    /\ sync = TRUE
    /\ pc = [r \in Ranks |-> "ch_start"]
    /\ temperature = [r \in Ranks |-> UnallocatedField]
    /\ full_data = << >>
    /\ IdleGather
    /\ IdleRead
    /\ IdleCkpt

NextChain ==
    \/ \E r \in Ranks : chain_announce(r)
    \/ \E r \in Ranks : chain_barrier1(r)
    \/ \E r \in Ranks : chain_timed(r)
    \/ \E r \in Ranks : chain_report(r)
    \/ \E r \in Ranks : chain_barrier2(r)
    \/ \E r \in Ranks : chain_elapsed(r)
    \/ \E r \in Ranks : chain_finalize(r)

SpecChain == InitChain /\ [][NextChain]_vars

\* Every process that can take a step eventually takes one
FairChain == InitChain /\ [][NextChain]_vars /\ WF_vars(NextChain)

\* ------------------------------------------------------------- claims
\* The interior cell (i, j) of a padded tile t with ny columns (C indices)
Interior(t, ny, i, j) == t[(i + 1) * (ny + 2) + (j + 1) + 1]

\* C2: whenever rank 0 has handed an assembled buffer to save_png, row block
\* r of that buffer equals the interior (ghost layers excluded) of the tile
\* rank r held at that snapshot, for every rank r, whatever the order in
\* which the messages of ranks 1..P-1 arrived.
C2_GatherOrdering ==
    png.iter >= 1 =>
        /\ Len(png.data) = png.height * png.width
        /\ \A r \in Ranks :
              LET nx == temperature[r].nx
                  ny == temperature[r].ny
              IN \A i \in 0 .. nx - 1, j \in 0 .. ny - 1 :
                    png.data[(r * nx + i) * ny + j + 1]
                        = Interior(TileGen(png.iter, r, nx, ny), ny, i, j)

\* C2 witness: a gather of three ranks with two rows each has completed.
C2_Witness ==
    /\ size >= 3 /\ png.iter >= 1 /\ pc[0] = "wf_done"
    /\ temperature[0].nx >= 2

\* The ghost layer filled in the order top/bottom rows over the interior
\* columns first, then left/right columns over every row
C3_RowsThenColumns(data, nx, ny) ==
    LET rows == [c \in 1 .. Len(data) |->
                    LET i == (c - 1) \div (ny + 2)
                        j == (c - 1) % (ny + 2)
                    IN IF j >= 1 /\ j <= ny /\ i = 0 THEN Cell(data, ny, 1, j)
                       ELSE IF j >= 1 /\ j <= ny /\ i = nx + 1 THEN Cell(data, ny, nx, j)
                       ELSE data[c]]
    IN [c \in 1 .. Len(data) |->
           LET i == (c - 1) \div (ny + 2)
               j == (c - 1) % (ny + 2)
           IN IF j = 0 THEN Cell(rows, ny, i, 1)
              ELSE IF j = ny + 1 THEN Cell(rows, ny, i, ny)
              ELSE rows[c]]

\* C3: once read_field has completed on a process, its two tiles are
\* identical, every ghost row cell equals the interior cell below/above it,
\* every ghost column cell the interior cell beside it, every corner the
\* nearest interior corner cell, and the tile is the one that mirroring
\* top/bottom first and left/right second produces.
C3_GhostMirror ==
    \A r \in Ranks :
        pc[r] = "rf_done" =>
            LET nx == temperature[r].nx
                ny == temperature[r].ny
                d == temperature[r].data
            IN /\ temperature2[r].data = d
               /\ Len(d) = (nx + 2) * (ny + 2)
               /\ \A j \in 1 .. ny :
                     /\ Cell(d, ny, 0, j) = Cell(d, ny, 1, j)
                     /\ Cell(d, ny, nx + 1, j) = Cell(d, ny, nx, j)
               /\ \A i \in 1 .. nx :
                     /\ Cell(d, ny, i, 0) = Cell(d, ny, i, 1)
                     /\ Cell(d, ny, i, ny + 1) = Cell(d, ny, i, ny)
               /\ Cell(d, ny, 0, 0) = Cell(d, ny, 1, 1)
               /\ Cell(d, ny, 0, ny + 1) = Cell(d, ny, 1, ny)
               /\ Cell(d, ny, nx + 1, 0) = Cell(d, ny, nx, 1)
               /\ Cell(d, ny, nx + 1, ny + 1) = Cell(d, ny, nx, ny)
               /\ d = C3_RowsThenColumns(d, nx, ny)

\* C3 witness: two processes have loaded tiles of two rows and two columns
\* from a well-formed file.
C3_Witness ==
    /\ size >= 2
    /\ \A r \in Ranks : pc[r] = "rf_done" /\ temperature[r].nx >= 2
                        /\ temperature[r].ny >= 2
    /\ input = GoodFile(temperature[0].nx_full, temperature[0].ny_full)

C10_NonRootNeedsNoFile ==
    \A r \in Ranks :
        (r > 0 /\ ~visible[r] /\ visible[0] /\ fscanf_header(input).count = 2)
            => pc[r] \notin {"crashed", "aborted"}

\* What read_field does instead: every process opens the file and reads the
\* header itself; only the values are read by rank 0 alone. A process that
\* has completed read_field has opened the file and read two integers from
\* its header,
\* and with a well-formed file the interior of its tile is its row block of
\* the field in the file.
EveryRankReadsHeader ==
    \A r \in Ranks :
        pc[r] = "rf_done" =>
            /\ visible[r] /\ local[r].count = 2
            /\ LET t == temperature[r]
               IN input = GoodFile(t.nx_full, t.ny_full) =>
                     \A i \in 0 .. t.nx - 1, j \in 0 .. t.ny - 1 :
                        Interior(t.data, t.ny, i, j) = FieldVal(r * t.nx + i, j)

\* A process of rank > 0 has completed read_field with a tile of a
\* well-formed file.
NonRootLoaded ==
    \E r \in Ranks :
        /\ r > 0 /\ pc[r] = "rf_done" /\ temperature[r].nx >= 2
        /\ input = GoodFile(temperature[r].nx_full, temperature[r].ny_full)

\* ---- checkpoint
Header == 3 * IntWords
TileWords(t) == LocalSize(t) * DoubleWords
Written == \A r \in Ranks : pc[r] = "wr_done"
Restarted == saved.size > 0
Restored == Restarted /\ \A r \in Ranks : pc[r] = "rr_done"

\* C1 as stated: after write_restart on P processes and read_restart on the
\* same P processes every process holds the padded tile it wrote, ghost
\* cells included, and the iteration written.
C1_RoundTrip ==
    (Restored /\ size = saved.size) =>
        \A r \in Ranks :
            /\ temperature[r] = saved.temperature[r]
            /\ iter[r] = saved.iter[r]

\* C1 on grids whose checkpoint is smaller than 2 GiB
C1_RoundTripSmall ==
    (Restored /\ size = saved.size /\ saved.temperature[0].nx < BigTile) =>
        \A r \in Ranks :
            /\ temperature[r] = saved.temperature[r]
            /\ iter[r] = saved.iter[r]

\* C5 as stated: the ranges written by the collective write are
\* [H + r T, H + (r + 1) T) for rank r, and the header and these ranges are
\* the whole file: its size is H + P T.
C5_DisjointCover ==
    Written =>
        LET T == TileWords(temperature[0])
        IN /\ \A r \in Ranks : wrote[r] = <<Header + r * T, T>>
           /\ FileLen(file) = Header + size * T

\* C9 as stated: after write_restart nothing of what the file held before is
\* left in it.
C9_CreatedFresh ==
    Written => \A k \in 1 .. Len(file) : file[k].kind # "old"

\* C6 as stated: a restart on a process count other than the one that wrote
\* the checkpoint does not get as far as reading tile data.
C6_MismatchRejected ==
    (Restarted /\ size # saved.size) =>
        \A r \in Ranks : pc[r] \notin {"rr_in_tile", "rr_in_close", "rr_done"}

\* The collective calls a process has made are those every other process
\* has made or will make, in the same order
CallSymmetry ==
    \A q, r \in Ranks :
        LET n == Min(Len(calls[q]), Len(calls[r]))
        IN SubSeq(calls[q], 1, n) = SubSeq(calls[r], 1, n)

CallsComplete ==
    /\ Written => \A r \in Ranks : calls[r] = <<"open", "write_at_all", "close">>
    /\ Restored => \A r \in Ranks :
          calls[r] = <<"open", "read_all", "read_all", "read_all", "read_at_all", "close">>

\* C7: in write_restart and in read_restart every process, rank 0 included,
\* makes the same collective calls in the same order (open, the collective
\* write or read at an offset, close, and the three collective header reads
\* of read_restart), and with every process that can take a step eventually
\* taking one, every process returns from write_restart and, after the
\* restart (which takes place only once every process has returned from
\* write_restart), from read_restart.
C7_CollectiveSymmetry ==
    /\ [](CallSymmetry /\ CallsComplete)
    /\ <>Restored

\* C7 witness: with a library whose collectives synchronise, three or more
\* processes have all returned from read_restart.
C7_Witness == Restored /\ sync /\ size >= 3

\* The state of the shared state machine a process is in
Stage(l) ==
    CASE l \in {"wr_call", "wr_in_open", "rr_call", "rr_in_open"} -> 0    \* Unopened
      [] l \in {"wr_hdr0", "wr_hdr1", "wr_hdr2",
                "rr_in_rows", "rr_in_cols", "rr_in_iter"} -> 1          \* Open
      [] l \in {"wr_tile", "wr_in_tile", "rr_in_tile"} -> 2              \* HeaderDone
      [] l \in {"wr_in_close", "rr_in_close"} -> 3                       \* TileDone
      [] OTHER -> 4                                                      \* Closed

\* Rank 0 has made its three header writes
HeaderWritten == fpos[0] = Header

\* Process q has completed the header phase
HeaderPhaseDone(q) ==
    /\ Stage(pc[q]) >= 2
    /\ (~Restarted /\ q = 0) => HeaderWritten

StageOrder ==
    (Restarted' = Restarted) =>
        \A r \in Ranks :
            \/ Stage(pc'[r]) = Stage(pc[r])
            \/ Stage(pc'[r]) = Stage(pc[r]) + 1
            \/ ~Restarted /\ r # 0 /\ Stage(pc[r]) = 0 /\ Stage(pc'[r]) = 2

ValueReadFails ==
    LET h == fscanf_header(input)
    IN /\ visible[0] /\ h.count = 2
       /\ NumPrefix(h.rest, 0) < h.nx * h.ny

\* C11 as stated: an I/O error on the coordinating process is fatal for the
\* group: when the read of the values fails on rank 0, rank 0 does not go on
\* into the collective scatter and no process returns from read_field as if
\* the load had succeeded.
C11_IoErrorFatal ==
    ValueReadFails =>
        /\ pc[0] \notin {"rf_in_scatter", "rf_fill", "rf_done"}
        /\ \A r \in Ranks : pc[r] # "rf_done"

\* ---- checkpoint offsets
\* C12 as stated: the offset every process passes to the collective write
\* and to the collective read is header_bytes + rank x tile_bytes, not
\* wrapped (in words of 4 bytes).
C12_OffsetExact ==
    /\ ~Restarted =>
          \A r \in Ranks :
              wrote[r] # << >> =>
                  wrote[r][1] = Header + r * TileWords(temperature[r])
    /\ Restarted =>
          \A r \in Ranks :
              pc[r] \in {"rr_in_tile", "rr_in_close", "rr_done"} =>
                  Disp(r, temperature[r]) = Header + r * TileWords(temperature[r])

\* ---- distribution of the field
\* The value at row gi, column j of the global field as rank 0 has read it
\* (the root's send buffer)
GlobalRead(gi, j, cols) == scat.buf[gi * cols + j + 1]

\* C13: in read_field no process calls the collective scatter more than
\* once, a process that has completed read_field has called it exactly once,
\* and then the interior of the tile of process i is rows
\* [i nx_local, (i + 1) nx_local) of the global field read by rank 0; the
\* blocks of the P processes are as many rows as the field has.
C13_ScatterPartition ==
    /\ \A r \in Ranks : Len(calls[r]) <= 1
    /\ \A r \in Ranks :
          pc[r] = "rf_done" =>
              LET t == temperature[r]
              IN /\ calls[r] = <<"scatter">>
                 /\ t.nx * size = t.nx_full
                 /\ Len(scat.buf) = t.nx_full * t.ny_full
                 /\ \A i \in 0 .. t.nx - 1, j \in 0 .. t.ny - 1 :
                       Interior(t.data, t.ny, i, j)
                           = GlobalRead(r * t.nx + i, j, t.ny_full)

\* C13 witness: three processes, those of rank > 0 included, have completed
\* read_field of a well-formed file with blocks of two rows.
C13_Witness ==
    /\ size >= 3
    /\ \A r \in Ranks : pc[r] = "rf_done" /\ temperature[r].nx >= 2
    /\ input = GoodFile(temperature[0].nx_full, temperature[0].ny_full)

\* ---- checkpoint header
\* The words [0, 3) of the file are the three integers a, b, c
HeaderIs(f, a, b, c) ==
    LET h == Slice(f, 0, Header)
    IN /\ Len(h) = 3
       /\ \A k \in 1 .. 3 : h[k].kind = "int"
       /\ <<h[1].id, h[2].id, h[3].id>> = <<a, b, c>>

\* C14 as stated: no tile write touches the bytes [0, 12); once write_restart
\* has completed they hold (rows_full, cols_full, iteration) as rank 0 wrote
\* them; and in the following read_restart every process that has got as far
\* as its tile read holds these three values.
C14_HeaderIntact ==
    /\ ~Restarted =>
          /\ \A r \in Ranks :
                (wrote[r] # << >> /\ wrote[r][1] >= 0) => wrote[r][1] >= Header
          /\ Written => HeaderIs(file, temperature[0].nx_full,
                                 temperature[0].ny_full, iter[0])
    /\ Restarted =>
          \A r \in Ranks :
              pc[r] \in {"rr_in_tile", "rr_in_close", "rr_done"} =>
                  /\ temperature[r].nx_full = saved.temperature[0].nx_full
                  /\ temperature[r].ny_full = saved.temperature[0].ny_full
                  /\ iter[r] = saved.iter[0]

\* ---- message protocol of write_field
\* What a step does to the messages: a message is sent only by a rank > 0 in
\* its one MPI_Send of the call, one message at a time; a message is taken
\* only by the receive of rank 0 that names its sender, and the sources named
\* go up by one from 1; rank 0 leaves the loop after the receive from rank
\* P - 1; a process of rank > 0 returns only from its send.
SendRecvStep ==
    /\ \A r \in Ranks :
          /\ Len(chan'[r]) > Len(chan[r]) =>
                /\ r > 0 /\ pc[r] = "wf_send" /\ pc'[r] = "wf_sending"
                /\ Len(chan'[r]) = Len(chan[r]) + 1
          /\ Len(chan'[r]) < Len(chan[r]) =>
                /\ pc[0] = "wf_recv" /\ p = r /\ p' = r + 1
                /\ Len(chan'[r]) = Len(chan[r]) - 1
          /\ (r > 0 /\ pc[r] # "wf_done" /\ pc'[r] = "wf_done") =>
                pc[r] = "wf_sending"
          /\ (r > 0 /\ pc[r] # "wf_sending" /\ pc'[r] = "wf_sending") =>
                pc[r] = "wf_send"
    /\ p' # p =>
          \/ pc[0] = "wf_call" /\ p' = 1
          \/ p' = p + 1 /\ Len(chan'[p]) = Len(chan[p]) - 1
    /\ (pc[0] = "wf_recv" /\ pc'[0] = "wf_done") => p = size

\* Every process has returned from its last call and no message is left
AllReturned == \A r \in Ranks : pc[r] = "wf_done" /\ chan[r] = << >>

\* C15: in a call of write_field each rank 1..P-1 sends one message to rank
\* 0 and nothing else, rank 0 makes P - 1 receives naming the sources 1, 2,
\* ..., P - 1 in this order, and with every process that can take a step
\* eventually taking one, every process has in the end returned from every
\* call it made and no message is left undelivered, with buffered and with
\* synchronous sends.
C15_GatherProtocol ==
    /\ [][SendRecvStep]_vars
    /\ <>[]AllReturned

\* C15 witness: with synchronous sends three processes have returned from
\* their last call of write_field.
C15_Witness ==
    /\ ~eager /\ size >= 3 /\ AllReturned
    /\ \A r \in Ranks : iter[r] = MaxSnap
    /\ png.iter = MaxSnap

\* ---- successive snapshots
\* The message rank r sends at snapshot k
PackedInterior(k, r, nx, ny) ==
    CopyInnerRows(malloc_2d(nx, ny), ny, TileGen(k, r, nx, ny), 0, nx, ny)

\* The last snapshot of which rank r has sent its message
LastSent(r) == IF pc[r] \in {"wf_sending", "wf_done"} THEN iter[r] ELSE iter[r] - 1

\* C16: over successive calls of write_field with the one tag 22, the
\* messages of a sender wait for rank 0 in the order of their snapshots, and
\* while rank 0 assembles snapshot k every block it has placed so far is the
\* interior of the tile its rank held at snapshot k, also when a sender has
\* already sent its message of a later snapshot.
C16_SnapshotIsolation ==
    /\ \A r \in Ranks : \A k \in 1 .. Len(chan[r]) :
          chan[r][k] = PackedInterior(LastSent(r) - Len(chan[r]) + k, r,
                                      temperature[r].nx, temperature[r].ny)
    /\ pc[0] = "wf_recv" =>
          \A q \in 0 .. p - 1 :
              LET nx == temperature[q].nx
                  ny == temperature[q].ny
              IN \A i \in 0 .. nx - 1, j \in 0 .. ny - 1 :
                    full_data[(q * nx + i) * ny + j + 1]
                        = Interior(TileGen(iter[0], q, nx, ny), ny, i, j)

\* C16 witness: rank 0 has assembled the first snapshot completely while the
\* message of a sender for the second snapshot is already waiting.
C16_Witness ==
    /\ pc[0] = "wf_recv" /\ p = size /\ iter[0] = 1
    /\ \E r \in Ranks : r > 0 /\ iter[r] = 2 /\ chan[r] # << >>

\* ---- the field is only read
\* A step of the caller, not of write_field or write_restart: the solver
\* advances the field for the next snapshot, or the program is restarted
CallerStep ==
    \/ saved' # saved
    \/ \E r \in Ranks : pc[r] = "wf_done" /\ pc'[r] # pc[r]

\* No step of write_field or write_restart changes the tile, the local
\* dimensions or the parallel descriptor of any process
ReadOnlyStep ==
    (~Restarted /\ ~CallerStep) => (temperature' = temperature /\ size' = size)

\* The tile of every process in a call of write_field is the padded tile the
\* solver handed to the call
GatherTileIntact ==
    \A r \in Ranks :
        pc[r] \in {"wf_call", "wf_recv", "wf_send", "wf_sending", "wf_done"} =>
            LET t == temperature[r]
            IN /\ t.data = TileGen(iter[r], r, t.nx, t.ny)
               /\ t.nx_full = t.nx * size /\ t.ny_full = t.ny

\* The tile of every process in and after a call of write_restart is the
\* padded tile it held at the call
CkptTileIntact ==
    \A r \in Ranks :
        pc[r] \in {"wr_call", "wr_in_open", "wr_hdr0", "wr_hdr1", "wr_hdr2",
                   "wr_tile", "wr_in_tile", "wr_in_close", "wr_done"} =>
            LET t == temperature[r]
            IN /\ t.data = <<Seg(LocalSize(t) * DoubleWords, "tile", r)>>
               /\ t.nx_full = t.nx * size /\ t.ny_full = t.ny

\* C17: write_field and write_restart only read the field: no step of
\* either changes the padded tile (interior and ghost cells), the local
\* dimensions or the parallel descriptor of any process, its own or
\* another's, and when either returns every process holds the tile it was
\* called with.
C17_FieldReadOnly ==
    /\ [][ReadOnlyStep]_vars
    /\ [](GatherTileIntact /\ CkptTileIntact)

\* C17 witness: two or more processes have returned from write_field and
\* rank 0 has saved the picture of the snapshot.
C17_Witness ==
    /\ size >= 2 /\ \A r \in Ranks : pc[r] = "wf_done"
    /\ png.iter = iter[0] /\ png.iter >= 1

\* ---- message chain
\* The number of lines of one kind a process has printed
Printed(r, kind) ==
    Cardinality({k \in 1 .. Len(stdout[r]) : stdout[r][k].kind = kind})

\* The barriers a process has entered are those every other process has
\* entered or will enter, and no process has left a barrier that some
\* process has not entered
BarrierSymmetry ==
    /\ \A r \in Ranks :
          /\ calls[r] \in {<< >>, <<"barrier">>, <<"barrier", "barrier">>}
          /\ pc[r] \in {"ch_report", "ch_bar2", "ch_in_bar2"} =>
                \A q \in Ranks : Len(calls[q]) >= 1
          /\ pc[r] \in {"ch_finalize", "ch_done"} =>
                \A q \in Ranks : Len(calls[q]) = 2

AllFinalized == \A r \in Ranks : pc[r] = "ch_done"

\* C18: in the message-chain skeleton every rank enters the two barriers,
\* in the same order, whatever its rank and the number of tasks; with every
\* process that can take a step eventually taking one, every rank gets
\* through both and reaches MPI_Finalize; and then the sender line has been
\* printed once by each of the ranks 0..ntasks-2 and by no other, the
\* receiver line once by each of the ranks 1..ntasks-1 and by no other.
C18_ChainBarriers ==
    /\ []BarrierSymmetry
    /\ <>[]AllFinalized
    /\ [](AllFinalized =>
            \A r \in Ranks :
                /\ calls[r] = <<"barrier", "barrier">>
                /\ Printed(r, "Sender") = (IF r <= size - 2 THEN 1 ELSE 0)
                /\ Printed(r, "Receiver") = (IF r >= 1 THEN 1 ELSE 0)
                /\ Printed(r, "Time") = 1)

\* C18 witness: three tasks have all reached the end of the program.
C18_Witness == size >= 3 /\ AllFinalized /\ Printed(1, "Sender") = 1

====
